---- MODULE Spec2Model ----
(***************************************************************************)
(* The example program of the repository (src/basic/main.go, and its       *)
(* shorter copy src/unnamed/part_001) as a state machine: one action per   *)
(* statement, pc named after the source line of the statement, out the     *)
(* lines written to standard output.  The values the language leaves to    *)
(* the implementation (where the allocator puts a slice's array, how far   *)
(* append grows the capacity) are nondeterministic choices.                *)
(***************************************************************************)
EXTENDS Integers, Sequences, FiniteSets, TLC

(* ------------------------------ bounds --------------------------------- *)

\* how many times the program is executed in one behaviour
NRuns == 2
\* how many distinct addresses the allocator can hand out
NAddrs == 3
\* the largest capacity a growing append may choose
MaxCap == 8
\* the lowest address of the modelled heap and the spacing of its blocks
AddrBase == 4096
AddrStep == 64

\* the keys tried on the switch statement: -MaxKey..MaxKey
MaxKey == 5

Addrs == {AddrBase + AddrStep * k : k \in 0..(NAddrs - 1)}

\* the two copies of the program in the repository
Files == {"basic/main.go", "unnamed/part_001"}

(* --------------------------- fmt formatting ---------------------------- *)

Digits == "0123456789abcdef"

Digit(d) == SubSeq(Digits, d + 1, d + 1)

RECURSIVE FormatUint(_, _)
FormatUint(n, base) ==
    IF n < base THEN Digit(n)
    ELSE FormatUint(n \div base, base) \o Digit(n % base)

\* %v of an int: decimal, with a sign when negative
FormatInt(n) == IF n < 0 THEN "-" \o FormatUint(0 - n, 10) ELSE FormatUint(n, 10)

\* %p, and %v of a pointer: 0x and the address in lower-case hexadecimal
FormatPtr(p) == "0x" \o FormatUint(p, 16)

RECURSIVE PadZero(_, _)
PadZero(str, w) == IF Len(str) >= w THEN str ELSE PadZero("0" \o str, w)

RECURSIVE Pow10(_)
Pow10(e) == IF e = 0 THEN 1 ELSE 10 * Pow10(e - 1)

\* %v of a float64 whose shortest decimal form is f.m / 10^f.e
FormatFloat(f) ==
    IF f.e = 0 THEN FormatInt(f.m)
    ELSE FormatInt(f.m \div Pow10(f.e)) \o "."
         \o PadZero(FormatUint(f.m % Pow10(f.e), 10), f.e)

RECURSIVE Join(_, _)
Join(parts, sep) ==
    IF Len(parts) = 0 THEN ""
    ELSE IF Len(parts) = 1 THEN parts[1]
    ELSE parts[1] \o sep \o Join(Tail(parts), sep)

\* fmt.Println: the operands' default formats, always separated by one
\* space; the newline it appends ends the line and is not stored
Sprintln(parts) == Join(parts, " ")

\* %v of an array or slice of ints
FormatInts(xs) ==
    "[" \o Join([k \in 1..Len(xs) |-> FormatInt(xs[k])], " ") \o "]"

\* %v of a slice of strings
FormatStrings(xs) == "[" \o Join(xs, " ") \o "]"

\* %v of an array of int arrays
FormatIntRows(rows) ==
    "[" \o Join([k \in 1..Len(rows) |-> FormatInts(rows[k])], " ") \o "]"

\* byte order of the letters that occur in the map's keys
Alphabet == "ABCDEFGHIJKLMNOPQRSTUVWXYZabcdefghijklmnopqrstuvwxyz"

Ord(c) == CHOOSE k \in 1..Len(Alphabet) : SubSeq(Alphabet, k, k) = c

RECURSIVE StrLess(_, _)
StrLess(u, v) ==
    IF Len(v) = 0 THEN FALSE
    ELSE IF Len(u) = 0 THEN TRUE
    ELSE IF Head(u) = Head(v) THEN StrLess(Tail(u), Tail(v))
    ELSE Ord(Head(u)) < Ord(Head(v))

RECURSIVE SortedKeys(_)
SortedKeys(ks) ==
    IF ks = {} THEN <<>>
    ELSE LET least == CHOOSE k \in ks : \A o \in ks \ {k} : StrLess(k, o)
         IN <<least>> \o SortedKeys(ks \ {least})

\* %v of a map[string]int: fmt prints the entries sorted by key
FormatMap(m) ==
    LET ks == SortedKeys(DOMAIN m)
    IN "map[" \o Join([k \in 1..Len(ks) |-> ks[k] \o ":" \o FormatInt(m[ks[k]])], " ")
       \o "]"

(* ------------------------------- state --------------------------------- *)

VARIABLES
    file,       \* which copy of the program is executed
    growCap,    \* the capacity this build's append gives the grown slice
    pc,         \* the statement to execute next
    out,        \* the lines this execution has written to standard output
    captured,   \* the complete output of every finished execution, in order
    name, age, a, b, x, y,
    i, key,
    nums, arr, slice, mapping, TwoDArray,
    s,          \* the slice header: pointer, length, capacity
    heap        \* the arrays allocated so far, by address

scalars == <<name, age, a, b, x, y>>
control == <<i, key>>
values  == <<nums, arr, slice, mapping, TwoDArray>>
memory  == <<s, heap>>
build   == <<file, growCap, captured>>
locals  == <<scalars, control, values, memory>>
vars    == <<pc, out, build, locals>>

\* const pi = 3.14, an untyped constant that becomes a float64 when printed
pi == [m |-> 314, e |-> 2]

\* a nil slice
NilSlice == [ptr |-> 0, len |-> 0, cap |-> 0]

\* the locals of main before any statement has run
Entry ==
    /\ pc = "L8"
    /\ out = <<>>
    /\ name = "" /\ age = 0 /\ a = 0 /\ b = 0
    /\ x = [m |-> 0, e |-> 0] /\ y = ""
    /\ i = 0 /\ key = 0
    /\ nums = <<>> /\ arr = <<>> /\ slice = <<>>
    /\ mapping = <<>> /\ TwoDArray = <<>>
    /\ s = NilSlice
    /\ heap = <<>>

Init ==
    /\ file \in Files
    /\ growCap \in 5..MaxCap
    /\ captured = <<>>
    /\ Entry

(* --------------------------- slices and heap --------------------------- *)

len(sl) == sl.len
cap(sl) == sl.cap

\* the elements a slice gives access to
Elems(sl, h) == IF sl.len = 0 THEN <<>> ELSE SubSeq(h[sl.ptr], 1, sl.len)

\* the heap after make([]int, n, c) put a zeroed array of c ints at p
AllocInts(h, p, c) == (p :> [k \in 1..c |-> 0]) @@ h

\* make([]int, n, c) when the allocator returns p
make(p, n, c) == [ptr |-> p, len |-> n, cap |-> c]

\* s[k] = v, k counted from 0 as in the program
Store(h, sl, k, v) == [h EXCEPT ![sl.ptr][k + 1] = v]

\* MustGrow as it would be with the comparison off by one: a slice with
\* one free element is already taken for full
MustGrowEarly(sl) == sl.len + 1 >= sl.cap

\* whether append(sl, v) has to allocate a new array
MustGrow(sl) == sl.len + 1 > sl.cap

\* the slice append(sl, v) returns; p is the address of the new array and
\* c its capacity when the append has to grow
append(sl, p, c) ==
    IF MustGrow(sl)
    THEN [ptr |-> p, len |-> sl.len + 1, cap |-> c]
    ELSE [sl EXCEPT !.len = sl.len + 1]

\* the heap after append(sl, v)
appendHeap(h, sl, v, p, c) ==
    IF MustGrow(sl)
    THEN (p :> [k \in 1..c |-> IF k <= sl.len THEN h[sl.ptr][k]
                               ELSE IF k = sl.len + 1 THEN v ELSE 0]) @@ h
    ELSE [h EXCEPT ![sl.ptr][sl.len + 1] = v]

(* ------------------------------ statements ----------------------------- *)

\* fmt.Println(parts...) and fmt.Printf of one line, then go to next
Println(parts, next) ==
    /\ out' = Append(out, Sprintln(parts))
    /\ pc' = next

\* a statement that only prints
PrintAt(at, parts, next) ==
    /\ pc = at
    /\ Println(parts, next)
    /\ UNCHANGED <<build, locals>>

Main_L8 == PrintAt("L8", <<"Hello, World!">>, "L9")

Main_L9 ==
    PrintAt("L9", <<"Welcome to Go programming,", "Let's learn Go together.">>, "L11")

Main_L11 ==
    /\ pc = "L11"
    /\ name' = "Alice"
    /\ pc' = "L12"
    /\ UNCHANGED <<out, build, age, a, b, x, y, control, values, memory>>

Main_L12 == PrintAt("L12", <<"My name is", name>>, "L14")

Main_L14 ==
    /\ pc = "L14"
    /\ age' = 30
    /\ pc' = "L15"
    /\ UNCHANGED <<out, build, name, a, b, x, y, control, values, memory>>

Main_L15 == PrintAt("L15", <<"I am", FormatInt(age), "years old.">>, "L17")

Main_L17 ==
    /\ pc = "L17"
    /\ a' = 5
    /\ b' = 10
    /\ pc' = "L18"
    /\ UNCHANGED <<out, build, name, age, x, y, control, values, memory>>

Main_L18 ==
    PrintAt("L18", <<"The sum of", FormatInt(a), "and", FormatInt(b), "is",
                     FormatInt(a + b)>>, "L20")

Main_L20 ==
    /\ pc = "L20"
    /\ x' = [m |-> 15, e |-> 1]
    /\ y' = "Go"
    /\ pc' = "L21"
    /\ UNCHANGED <<out, build, name, age, a, b, control, values, memory>>

Main_L21 ==
    PrintAt("L21", <<"The value of x is", FormatFloat(x), "and the value of y is", y>>,
            "L24")

Main_L24 == PrintAt("L24", <<"The value of pi is", FormatFloat(pi)>>, "L28_init")

(* first counting loop: for i := 0; i < 5; i++ *)

Main_L28_init ==
    /\ pc = "L28_init"
    /\ i' = 0
    /\ pc' = "L28_cond"
    /\ UNCHANGED <<out, build, scalars, key, values, memory>>

\* Main_L28_cond as it would be with <= written for <
Main_L28_cond_inclusive ==
    /\ pc = "L28_cond"
    /\ pc' = IF i <= 5 THEN "L29" ELSE "L34_init"
    /\ UNCHANGED <<out, build, locals>>

Main_L28_cond ==
    /\ pc = "L28_cond"
    /\ pc' = IF i < 5 THEN "L29" ELSE "L34_init"
    /\ UNCHANGED <<out, build, locals>>

Main_L29 == PrintAt("L29", <<"Iteration:", FormatInt(i)>>, "L28_post")

Main_L28_post ==
    /\ pc = "L28_post"
    /\ i' = i + 1
    /\ pc' = "L28_cond"
    /\ UNCHANGED <<out, build, scalars, key, values, memory>>

(* second counting loop: for i := 1; i <= 5; i++ *)

Main_L34_init ==
    /\ pc = "L34_init"
    /\ i' = 1
    /\ pc' = "L34_cond"
    /\ UNCHANGED <<out, build, scalars, key, values, memory>>

Main_L34_cond ==
    /\ pc = "L34_cond"
    /\ pc' = IF i <= 5 THEN "L35" ELSE "L42"
    /\ UNCHANGED <<out, build, locals>>

Main_L35 ==
    /\ pc = "L35"
    /\ pc' = IF i % 2 = 0 THEN "L36" ELSE "L38"
    /\ UNCHANGED <<out, build, locals>>

Main_L36 == PrintAt("L36", <<FormatInt(i), "is even">>, "L34_post")

Main_L38 == PrintAt("L38", <<FormatInt(i), "is odd">>, "L34_post")

Main_L34_post ==
    /\ pc = "L34_post"
    /\ i' = i + 1
    /\ pc' = "L34_cond"
    /\ UNCHANGED <<out, build, scalars, key, values, memory>>

(* if name := "Alice"; name == "Alice": the name of the if statement's own
   scope decides, not the one declared on line 11 *)

IfGreeting(n) == IF n = "Alice" THEN "Hello, Alice!" ELSE "Hello, stranger!"

Main_L42 == PrintAt("L42", <<IfGreeting("Alice")>>, "L48")

(* switch key: the first case equal to key runs, alone (no fallthrough);
   default runs when none is *)

SwitchCase(k) ==
    IF k = 1 THEN "case 1"
    ELSE IF k = 2 THEN "case 2"
    ELSE IF k = 3 THEN "case 3"
    ELSE "default"

\* CaseBody as it would be if control fell through from one case into the
\* next, as it does in C
CaseBodyFallthrough(c) ==
    CASE c = "case 1" -> <<"key is 1", "key is 2", "key is 3",
                            "key is not in range [1,3]">>
      [] c = "case 2" -> <<"key is 2", "key is 3", "key is not in range [1,3]">>
      [] c = "case 3" -> <<"key is 3", "key is not in range [1,3]">>
      [] c = "default" -> <<"key is not in range [1,3]">>

\* the lines the body of a case prints
CaseBody(c) ==
    CASE c = "case 1" -> <<"key is 1">>
      [] c = "case 2" -> <<"key is 2">>
      [] c = "case 3" -> <<"key is 3">>
      [] c = "default" -> <<"key is not in range [1,3]">>

\* everything the switch statement prints for a key
SwitchOutput(k) == CaseBody(SwitchCase(k))

Main_L48 ==
    /\ pc = "L48"
    /\ key' = 3
    /\ pc' = "L50"
    /\ UNCHANGED <<out, build, scalars, i, values, memory>>

\* part_001 ends after the switch; main.go goes on with the collections
Main_L50 ==
    /\ pc = "L50"
    /\ out' = out \o SwitchOutput(key)
    /\ pc' = IF file = "unnamed/part_001" THEN "return" ELSE "L63"
    /\ UNCHANGED <<build, locals>>

(* arrays *)

Main_L63 ==
    /\ pc = "L63"
    /\ nums' = [k \in 1..5 |-> 0]
    /\ pc' = "L64"
    /\ UNCHANGED <<out, build, scalars, control, arr, slice, mapping, TwoDArray, memory>>

Main_L64 ==
    /\ pc = "L64"
    /\ nums' = [nums EXCEPT ![1 + 1] = 20]
    /\ pc' = "L65"
    /\ UNCHANGED <<out, build, scalars, control, arr, slice, mapping, TwoDArray, memory>>

Main_L65 == PrintAt("L65", <<FormatInts(nums)>>, "L67")

Main_L67 ==
    /\ pc = "L67"
    /\ arr' = <<1, 2, 3, 4, 5>>
    /\ pc' = "L68"
    /\ UNCHANGED <<out, build, scalars, control, nums, slice, mapping, TwoDArray, memory>>

Main_L68 == PrintAt("L68", <<"Array:", FormatInts(arr)>>, "L70")

(* the slice s: make, three stores, two appends *)

\* s := make([]int, 3, 4); the allocator picks any free address
Main_L70 ==
    /\ pc = "L70"
    /\ \E p \in Addrs \ DOMAIN heap :
          /\ s' = make(p, 3, 4)
          /\ heap' = AllocInts(heap, p, 4)
    /\ pc' = "L71"
    /\ UNCHANGED <<out, build, scalars, control, values>>

\* s[k] = v
StoreAt(at, k, v, next) ==
    /\ pc = at
    /\ heap' = Store(heap, s, k, v)
    /\ pc' = next
    /\ UNCHANGED <<out, build, scalars, control, values, s>>

Main_L71 == StoreAt("L71", 0, 10, "L72")

Main_L72 == StoreAt("L72", 1, 20, "L73")

Main_L73 == StoreAt("L73", 2, 30, "L74")

\* SliceLine as it would be had the address of the array been printed with
\* the elements
SliceLineWithAddr(label, sl, h) ==
    <<label, FormatPtr(sl.ptr), FormatInts(Elems(sl, h)), "Length:",
      FormatInt(sl.len), "Capacity:", FormatInt(sl.cap)>>

\* the operands of the two Println calls that show the slice
SliceLine(label, sl, h) ==
    <<label, FormatInts(Elems(sl, h)), "Length:", FormatInt(len(sl)),
      "Capacity:", FormatInt(cap(sl))>>

\* &s[0]: the address of the first element is the address of the array
AddrOfFirst(sl) == sl.ptr

Main_L74 == PrintAt("L74", SliceLine("Slice:", s, heap), "L75")

\* fmt.Printf("%p\n", s): for a slice %p is the address of element 0
Main_L75 == PrintAt("L75", <<FormatPtr(AddrOfFirst(s))>>, "L76")

Main_L76 == PrintAt("L76", <<"Address of slice:", FormatPtr(AddrOfFirst(s))>>, "L78")

\* s = append(s, v): in place while the capacity lasts, else into a new
\* array at a free address, with the capacity this build grows to
AppendAt(at, v, next) ==
    /\ pc = at
    /\ IF MustGrow(s)
       THEN \E p \in Addrs \ DOMAIN heap :
               /\ s' = append(s, p, growCap)
               /\ heap' = appendHeap(heap, s, v, p, growCap)
       ELSE /\ s' = append(s, s.ptr, s.cap)
            /\ heap' = appendHeap(heap, s, v, s.ptr, s.cap)
    /\ pc' = next
    /\ UNCHANGED <<out, build, scalars, control, values>>

Main_L78 == AppendAt("L78", 40, "L79")

Main_L79 == AppendAt("L79", 50, "L80")

Main_L80 == PrintAt("L80", SliceLine("Slice after appending:", s, heap), "L81")

Main_L81 == PrintAt("L81", <<FormatPtr(AddrOfFirst(s))>>, "L82")

Main_L82 ==
    PrintAt("L82", <<"Address of slice after appending:", FormatPtr(AddrOfFirst(s))>>,
            "L84")

(* slice of strings, map, two-dimensional array *)

Main_L84 ==
    /\ pc = "L84"
    /\ slice' = <<"Go", "Python", "Java">>
    /\ pc' = "L85"
    /\ UNCHANGED <<out, build, scalars, control, nums, arr, mapping, TwoDArray, memory>>

Main_L85 == PrintAt("L85", <<"Slice:", FormatStrings(slice)>>, "L87")

Main_L87 ==
    /\ pc = "L87"
    /\ mapping' = ("Alice" :> 30) @@ ("Bob" :> 25)
    /\ pc' = "L88"
    /\ UNCHANGED <<out, build, scalars, control, nums, arr, slice, TwoDArray, memory>>

Main_L88 == PrintAt("L88", <<"Map:", FormatMap(mapping)>>, "L90")

Main_L90 ==
    /\ pc = "L90"
    /\ TwoDArray' = <<<<1, 2, 3>>, <<4, 5, 6>>>>
    /\ pc' = "L91"
    /\ UNCHANGED <<out, build, scalars, control, nums, arr, slice, mapping, memory>>

Main_L91 ==
    PrintAt("L91", <<"Two-dimensional array:", FormatIntRows(TwoDArray)>>, "return")

(* the end of main, and the next execution of the program *)

\* main returns: the process exits and its output is complete
Main_return ==
    /\ pc = "return"
    /\ captured' = Append(captured, out)
    /\ pc' = "exited"
    /\ UNCHANGED <<out, file, growCap, locals>>

\* the same program is executed again: main starts over with fresh locals
\* and an empty heap and output
RunAgain ==
    /\ pc = "exited"
    /\ Len(captured) < NRuns
    /\ pc' = "L8"
    /\ out' = <<>>
    /\ name' = "" /\ age' = 0 /\ a' = 0 /\ b' = 0
    /\ x' = [m |-> 0, e |-> 0] /\ y' = ""
    /\ i' = 0 /\ key' = 0
    /\ nums' = <<>> /\ arr' = <<>> /\ slice' = <<>>
    /\ mapping' = <<>> /\ TwoDArray' = <<>>
    /\ s' = NilSlice
    /\ heap' = <<>>
    /\ UNCHANGED build

\* every statement of main but the assignment to key
Statements ==
    \/ Main_L8 \/ Main_L9 \/ Main_L11 \/ Main_L12 \/ Main_L14 \/ Main_L15
    \/ Main_L17 \/ Main_L18 \/ Main_L20 \/ Main_L21 \/ Main_L24
    \/ Main_L28_init \/ Main_L28_cond \/ Main_L29 \/ Main_L28_post
    \/ Main_L34_init \/ Main_L34_cond \/ Main_L35 \/ Main_L36 \/ Main_L38
    \/ Main_L34_post
    \/ Main_L42 \/ Main_L50
    \/ Main_L63 \/ Main_L64 \/ Main_L65 \/ Main_L67 \/ Main_L68
    \/ Main_L70 \/ Main_L71 \/ Main_L72 \/ Main_L73 \/ Main_L74 \/ Main_L75
    \/ Main_L76 \/ Main_L78 \/ Main_L79 \/ Main_L80 \/ Main_L81 \/ Main_L82
    \/ Main_L84 \/ Main_L85 \/ Main_L87 \/ Main_L88 \/ Main_L90 \/ Main_L91
    \/ Main_return

Next == Statements \/ Main_L48 \/ RunAgain

Spec == Init /\ [][Next]_vars

\* one execution of the program
RunNext == Statements \/ Main_L48

\* the statements of one goroutine run one after another and each of them
\* completes, so a step that can be taken is taken
FairSpec == Init /\ [][RunNext]_vars /\ WF_vars(RunNext)

(* the switch statement as a function of its key: one execution of the
   program in which line 48 gives key any value of KeyRange, 3 among them *)

KeyRange == (0 - MaxKey)..MaxKey

Main_L48_anyKey ==
    /\ pc = "L48"
    /\ key' \in KeyRange
    /\ pc' = "L50"
    /\ UNCHANGED <<out, build, scalars, i, values, memory>>

SwitchNext == Statements \/ Main_L48_anyKey

SwitchSpec == Init /\ [][SwitchNext]_vars

(* ------------------------------ properties ----------------------------- *)

\* the statements that print a pointer value: Printf("%p\n", s) and
\* Println(..., &s[0]), before and after the appends
PointerStmts == {"L75", "L76", "L81", "L82"}

\* the output lines those statements write
PointerLines == {23, 24, 26, 27}

\* the executions that have finished
Finished == 1..Len(captured)

\* C10 as stated: two executions of the same program, the example program
\* with its %p and &s[0] lines included, capture the same sequence of lines.
C10_IdenticalOutput ==
    \A r1, r2 \in Finished : captured[r1] = captured[r2]

\* C10 as amended: two executions of the example program write the same
\* number of lines and agree on every line except the four that print a
\* pointer value (lines 23, 24, 26 and 27, written by the statements on
\* source lines 75, 76, 81 and 82); the copy that ends after the switch
\* prints no pointer and its executions agree on every line.
C10_IdenticalButPointers ==
    /\ pc \in PointerStmts => Len(out) + 1 \in PointerLines
    /\ pc \notin PointerStmts => Len(out) + 1 \notin PointerLines
    /\ \A r1, r2 \in Finished :
          /\ Len(captured[r1]) = Len(captured[r2])
          /\ \A k \in 1..Len(captured[r1]) :
                k \notin PointerLines => captured[r1][k] = captured[r2][k]

\* two finished executions of main.go whose pointer lines differ
C10_Witness ==
    /\ Len(captured) = NRuns
    /\ file = "basic/main.go"
    /\ captured[1][23] # captured[2][23]
    /\ captured[1][26] # captured[2][26]
    /\ captured[1][22] = captured[2][22]

\* the statements between make and the first append
BeforeAppends == {"L71", "L72", "L73", "L74", "L75", "L76", "L78"}

\* main.go after the second append
AfterAppends ==
    /\ file = "basic/main.go"
    /\ pc \in {"L80", "L81", "L82", "L84", "L85", "L87", "L88", "L90", "L91",
               "return", "exited"}

\* the slice at each point of lines 70 to 82
C11_SliceStates ==
    /\ len(s) <= cap(s)
    /\ pc \in BeforeAppends => len(s) = 3 /\ cap(s) = 4
    /\ pc \in {"L74", "L75", "L76", "L78"} => Elems(s, heap) = <<10, 20, 30>>
    /\ pc = "L79" => /\ len(s) = 4 /\ cap(s) = 4
                     /\ Elems(s, heap) = <<10, 20, 30, 40>>
    /\ AfterAppends => /\ len(s) = 5 /\ cap(s) > 4
                       /\ Elems(s, heap) = <<10, 20, 30, 40, 50>>

\* what the two appends do to the array
C11_AppendSteps ==
    /\ pc = "L78" /\ pc' = "L79" =>
          /\ AddrOfFirst(s') = AddrOfFirst(s)
          /\ DOMAIN heap' = DOMAIN heap
    /\ pc = "L79" /\ pc' = "L80" =>
          /\ AddrOfFirst(s') # AddrOfFirst(s)
          /\ AddrOfFirst(s') \notin DOMAIN heap
          /\ heap'[AddrOfFirst(s)] = heap[AddrOfFirst(s)]

\* C11: make([]int, 3, 4) gives len 3 and cap 4; the first append gives
\* len 4 with cap still 4 and the same array; the second append gives len 5
\* in a newly allocated array (element 0 at another address) with a cap
\* above 4; the elements end as 10, 20, 30, 40, 50 and len <= cap holds
\* at every step.
C11_MakeAppendAppend == []C11_SliceStates /\ [][C11_AppendSteps]_vars

\* the second append has moved the five elements into a second array
C11_Witness ==
    /\ pc = "L80"
    /\ Cardinality(DOMAIN heap) = 2
    /\ len(s) = 5
    /\ Elems(s, heap) = <<10, 20, 30, 40, 50>>

\* the texts the four bodies of the switch print
SwitchTexts == {"key is 1", "key is 2", "key is 3", "key is not in range [1,3]"}

\* how many lines of the output so far are the text t
Printed(t) == Cardinality({k \in 1..Len(out) : out[k] = t})

\* the switch texts that are in the output so far
PrintedTexts == {t \in SwitchTexts : Printed(t) > 0}

\* the output at the switch and at the end of main
C12_SwitchOutput ==
    /\ \A t \in SwitchTexts : Printed(t) <= 1
    /\ pc = "L50" => PrintedTexts = {}
    /\ pc \in {"return", "exited"} =>
          /\ key = 3 => PrintedTexts = {"key is 3"}
          /\ key \notin {1, 2, 3} => PrintedTexts = {"key is not in range [1,3]"}

\* the step of the switch statement
C12_SwitchStep ==
    pc = "L50" /\ pc' # "L50" =>
        /\ key = 3 => out' = Append(out, "key is 3")
        /\ key \notin {1, 2, 3} => out' = Append(out, "key is not in range [1,3]")

\* C12: with key = 3 the switch runs one case body: it prints "key is 3"
\* once and none of "key is 1", "key is 2" and the default text, control
\* never continuing into a following case; with a key outside {1, 2, 3}
\* only the default body runs.
C12_ExactlyOneCase == []C12_SwitchOutput /\ [][C12_SwitchStep]_vars

\* main has returned with key = 3 and "key is 3" printed once
C12_Witness ==
    /\ pc = "exited"
    /\ key = 3
    /\ Printed("key is 3") = 1
    /\ Printed("key is not in range [1,3]") = 0

\* what the two counting loops print, with the line before them and the
\* line after them
LoopLines ==
    <<"The value of pi is 3.14",
      "Iteration: 0", "Iteration: 1", "Iteration: 2", "Iteration: 3", "Iteration: 4",
      "1 is odd", "2 is even", "3 is odd", "4 is even", "5 is odd",
      "Hello, Alice!">>

\* the loop variable inside the loop bodies, and the output lines 7 to 18
\* as far as they are written
C13_LoopOutput ==
    /\ pc \in {"L29", "L28_post"} => i \in 0..4
    /\ pc \in {"L35", "L36", "L38", "L34_post"} => i \in 1..5
    /\ pc = "L36" => i % 2 = 0
    /\ pc = "L38" => i % 2 = 1
    /\ pc = "L29" => Len(out) = 7 + i
    /\ pc \in {"L36", "L38"} => Len(out) = 11 + i
    /\ \A k \in 7..18 : k <= Len(out) => out[k] = LoopLines[k - 6]
    /\ pc \in {"return", "exited"} => Len(out) >= 18

\* C13: every execution of the program terminates, and its two counting
\* loops run five iterations each in ascending order: "Iteration: i" for
\* i = 0..4, then for i = 1..5 one line each, "i is even" when i % 2 = 0
\* and "i is odd" otherwise, the first loop's lines all before the second's.
C13_TerminatesAfterFiveAndFive ==
    /\ []C13_LoopOutput
    /\ (pc = "L8") ~> (pc = "exited")
    /\ <>[](pc = "exited")

\* the execution has ended with the ten loop lines in its output
C13_Witness ==
    /\ pc = "exited"
    /\ captured = <<out>>
    /\ SubSeq(out, 8, 12) = SubSeq(LoopLines, 2, 6)
    /\ SubSeq(out, 13, 17) = SubSeq(LoopLines, 7, 11)

====
